---- MODULE Spec2Model ----
(***************************************************************************)
(* A model of the preset store of oauth-preset-manager (opm/core.py):      *)
(* the live credential file, the preset files, the backup directory and    *)
(* the configuration record, with PresetManager's operations as actions.   *)
(***************************************************************************)
EXTENDS Integers, Sequences, FiniteSets, TLC

\* ------------------------------------------------------------------------
\* Bounds of the model
\* ------------------------------------------------------------------------
MaxOps == 3
MaxTime == 2
MaxBackupTime == 12

\* Program constant: _create_backup keeps the last 10 backup_*.json files.
KeepBackups == 10

\* ------------------------------------------------------------------------
\* Names
\* ------------------------------------------------------------------------
\* Service names, listed in lexicographic (Python string) order.
ServiceOrder == <<"anthropic", "openai">>
Services == {ServiceOrder[i] : i \in DOMAIN ServiceOrder}
\* Preset names, listed in lexicographic order.
NameOrder == <<"home", "work">>
Names == {NameOrder[i] : i \in DOMAIN NameOrder}
\* Opaque credential entries (the JSON values stored under a service name).
Creds == {"credA", "credB"}
Managers == {"m1", "m2"}

NoPreset == "None"
EmptyFcn == [x \in {} |-> 0]
\* sorted(list(S)) for a set S of preset names.
SortedNames(S) == SelectSeq(NameOrder, LAMBDA n : n \in S)

\* No error in a quota result, no OAuth entry, no exception, no collector
\* call yet, no provider.
NoError == "None"
NoEntry == "-"
NoRaise == "-"
NoCall == [op |-> "-", raised |-> NoRaise, results |-> <<>>, fetched |-> <<>>]
NoQuota == [provider |-> EmptyFcn, antigravity |-> <<>>, call |-> NoCall]

\* ------------------------------------------------------------------------
\* Python dicts: insertion-ordered sequences of <<key, value>> pairs with
\* distinct keys.  Equality of dicts (==) ignores the order.
\* ------------------------------------------------------------------------
Keys(d) == {d[i][1] : i \in DOMAIN d}
KeyList(d) == [i \in DOMAIN d |-> d[i][1]]
Get(d, k) == LET i == CHOOSE j \in DOMAIN d : d[j][1] = k IN d[i][2]
DictEq(a, b) == Keys(a) = Keys(b) /\ \A k \in Keys(a) : Get(a, k) = Get(b, k)
DictSet(d, k, v) ==
    IF k \in Keys(d)
    THEN [i \in DOMAIN d |-> IF d[i][1] = k THEN <<k, v>> ELSE d[i]]
    ELSE Append(d, <<k, v>>)
DictDel(d, k) == SelectSeq(d, LAMBDA e : e[1] # k)

\* sorted(list(S)) for a set S of service names.
SortedServices(S) == SelectSeq(ServiceOrder, LAMBDA s : s \in S)
SeqSet(s) == {s[i] : i \in DOMAIN s}

\* All dicts over Services x Creds.
Entries == Services \X Creds
Dicts ==
    {<<>>}
    \cup {<<e>> : e \in Entries}
    \cup {d \in {<<e1, e2>> : e1 \in Entries, e2 \in Entries} : d[1][1] # d[2][1]}

\* ------------------------------------------------------------------------
\* Files.  A file is absent or holds bytes; the bytes of a JSON object are
\* its entries in textual order plus its layout: "ext" is the layout the
\* client application wrote, "dump" is what json.dump(_, indent=2) writes.
\* Two files are byte-identical iff the records are equal.
\* ------------------------------------------------------------------------
Absent == [kind |-> "absent", dict |-> <<>>, fmt |-> "-"]
Malformed == [kind |-> "malformed", dict |-> <<>>, fmt |-> "-"]
NonObject == [kind |-> "nonobj", dict |-> <<>>, fmt |-> "-"]
ObjFile(d, f) == [kind |-> "obj", dict |-> d, fmt |-> f]
Exists(file) == file.kind # "absent"

\* json.load(f): raises on malformed text; returns a dict for an object and a
\* list/str/number (which has no .keys()) otherwise.
JsonLoad(file) ==
    [raises |-> file.kind = "malformed", isdict |-> file.kind = "obj", d |-> file.dict]
\* json.dump(d, f, indent=2)
JsonDump(d) == ObjFile(d, "dump")
\* shutil.copy2(src, dst): the bytes of src.
Copy2(file) == file

\* What the client application may leave at the live path.
LiveInputs == {Absent, Malformed, NonObject} \cup {ObjFile(d, "ext") : d \in Dicts}

\* ------------------------------------------------------------------------
\* Optional arguments (None or a list of service names)
\* ------------------------------------------------------------------------
Null == [null |-> TRUE, list |-> <<>>]
Some(l) == [null |-> FALSE, list |-> l]
ServiceLists ==
    {<<>>} \cup {<<s>> : s \in Services}
    \cup {<<s, t>> : s \in Services, t \in Services \ {"anthropic"}}
SelectedInputs == {Null} \cup {Some(l) : l \in ServiceLists}
\* (selected_services, auto_backup) arguments of switch_preset_selective
SelectiveInputs ==
    {<<s, TRUE>> : s \in SelectedInputs} \cup {<<Null, FALSE>>, <<Some(<<"openai">>), FALSE>>}
\* (description, watched_services) arguments of save_preset
SaveInputs == {<<"", Null>>, <<"desc", Some(<<"anthropic">>)>>, <<"desc", Some(<<>>)>>}

\* ------------------------------------------------------------------------
\* State
\* ------------------------------------------------------------------------
VARIABLES
    live,        \* the file at config["auth_path"]
    presetFile,  \* presets_dir/<name>.json, for each name
    backups,     \* backups_dir: backup file name -> file
    config,      \* self.config of each PresetManager instance
    configFile,  \* config.json
    now,         \* the wall clock, in ticks
    ops,         \* number of steps taken
    last,        \* the last call: what it returned (with its arguments) or raised
    quota        \* the quota providers and the last collector or formatter call

vars == <<live, presetFile, backups, config, configFile, now, ops, last, quota>>

Cfg(cur, ps) == [current_preset |-> cur, presets |-> ps]
\* No config: config.json absent, or a manager that is not constructed.
NoConfig == Cfg("-", EmptyFcn)
\* _load_config's default config
DefaultConfig == Cfg(NoPreset, EmptyFcn)

\* ------------------------------------------------------------------------
\* Time: datetime.now() has sub-second resolution; strftime("%Y%m%d_%H%M%S")
\* keeps whole seconds.  The fixed-width stamp sorts as the number does.
\* ------------------------------------------------------------------------
TicksPerSecond == 2
Stamp(t) == t \div TicksPerSecond
IsoFormat(t) == t

\* Backup file names: before_<preset>_<stamp>.json and backup_<stamp>.json
BeforeName(name, t) == [pfx |-> "before", preset |-> name, ts |-> Stamp(t)]
BackupName(t) == [pfx |-> "backup", preset |-> "", ts |-> Stamp(t)]
NoPath == [pfx |-> "none", preset |-> "", ts |-> 0]
\* glob("backup_*.json")
MatchesBackupGlob(n) == n.pfx = "backup"

NoDiff == [added |-> <<>>, removed |-> <<>>, modified |-> <<>>, unchanged |-> <<>>]

\* metadata = self.config["presets"].get(name, {}): the {} of a preset
\* without a metadata entry
NoMeta ==
    [created_at |-> -1, last_used |-> -1, description |-> "",
     services |-> <<>>, watched_services |-> <<>>]

Result(op, name, status) ==
    [op |-> op, name |-> name, status |-> status, mgr |-> "-",
     auto_backup |-> FALSE, selected |-> Null, description |-> "", watched |-> Null,
     diff |-> NoDiff, backup_path |-> NoPath,
     found |-> FALSE, services |-> <<>>, metadata |-> NoMeta, is_current |-> FALSE,
     listing |-> <<>>]
\* The result of a call of manager m
CallResult(m, op, name, status) == [Result(op, name, status) EXCEPT !.mgr = m]

\* ------------------------------------------------------------------------
\* Faulty variants of the definitions below, against which the properties
\* are tried: each is the definition it is named after with one slip.
\* ------------------------------------------------------------------------
\* unchanged = sorted(common), forgetting to take the modified ones out
ComputeAuthDiff_UnchangedAll(old_auth, new_auth) ==
    LET old_services == Keys(old_auth)
        new_services == Keys(new_auth)
        common == old_services \cap new_services
        modified == {s \in common : Get(old_auth, s) # Get(new_auth, s)}
    IN  [added |-> SortedServices(new_services \ old_services),
         removed |-> SortedServices(old_services \ new_services),
         modified |-> SortedServices(modified),
         unchanged |-> SortedServices(common)]

\* the loop without its "elif service in merged_auth: del" branch
RECURSIVE MergeLoop_NoDelete(_, _, _)
MergeLoop_NoDelete(merged_auth, new_auth, services) ==
    IF services = <<>> THEN merged_auth
    ELSE LET service == Head(services)
             next == IF service \in Keys(new_auth)
                     THEN DictSet(merged_auth, service, Get(new_auth, service))
                     ELSE merged_auth
         IN  MergeLoop_NoDelete(next, new_auth, Tail(services))

\* ------------------------------------------------------------------------
\* PresetManager._compute_auth_diff
\* ------------------------------------------------------------------------
ComputeAuthDiff(old_auth, new_auth) ==
    LET old_services == Keys(old_auth)
        new_services == Keys(new_auth)
        added == new_services \ old_services
        removed == old_services \ new_services
        common == old_services \cap new_services
        modified == {s \in common : Get(old_auth, s) # Get(new_auth, s)}
    IN  [added |-> SortedServices(added),
         removed |-> SortedServices(removed),
         modified |-> SortedServices(modified),
         unchanged |-> SortedServices(common \ modified)]

\* ------------------------------------------------------------------------
\* The merge of switch_preset_selective
\* ------------------------------------------------------------------------
RECURSIVE MergeLoop(_, _, _)
MergeLoop(merged_auth, new_auth, services) ==
    IF services = <<>> THEN merged_auth
    ELSE LET service == Head(services)
             next == IF service \in Keys(new_auth)
                     THEN DictSet(merged_auth, service, Get(new_auth, service))
                     ELSE IF service \in Keys(merged_auth)
                          THEN DictDel(merged_auth, service)
                          ELSE merged_auth
         IN  MergeLoop(next, new_auth, Tail(services))

\* merged_auth = new_auth.copy() instead of old_auth.copy()
MergeAuth_FromNew(old_auth, new_auth, selected_services) ==
    IF selected_services.null
    THEN new_auth
    ELSE MergeLoop(new_auth, new_auth, selected_services.list)

\* None taken as "every service of the preset", merged into the old mapping
MergeAuth_NullMerges(old_auth, new_auth, selected_services) ==
    IF selected_services.null
    THEN MergeLoop(old_auth, new_auth, KeyList(new_auth))
    ELSE MergeLoop(old_auth, new_auth, selected_services.list)

MergeAuth(old_auth, new_auth, selected_services) ==
    IF selected_services.null
    THEN new_auth
    ELSE MergeLoop(old_auth, new_auth, selected_services.list)

\* ------------------------------------------------------------------------
\* PresetManager._create_backup, on an existing live file: the backup
\* directory after the copy and the rotation.
\* ------------------------------------------------------------------------
\* backups[:10] instead of backups[:-10]: the oldest are kept
Rotate_KeepsOldest(dir) ==
    LET bs == {n \in DOMAIN dir : MatchesBackupGlob(n)}
        old == {n \in bs : Cardinality({m \in bs : m.ts < n.ts}) >= KeepBackups}
    IN  IF Cardinality(bs) > KeepBackups
        THEN [n \in DOMAIN dir \ old |-> dir[n]]
        ELSE dir

Rotate(dir) ==
    LET bs == {n \in DOMAIN dir : MatchesBackupGlob(n)}
        \* backups[:-10] of the list sorted by name
        old == {n \in bs : Cardinality({m \in bs : m.ts > n.ts}) >= KeepBackups}
    IN  IF Cardinality(bs) > KeepBackups
        THEN [n \in DOMAIN dir \ old |-> dir[n]]
        ELSE dir

CreateBackup(dir, auth, backup_name) ==
    LET copied == [n \in DOMAIN dir \cup {backup_name} |->
                      IF n = backup_name THEN Copy2(auth) ELSE dir[n]]
    IN  Rotate(copied)

\* ------------------------------------------------------------------------
\* Init: a manager m1 constructed on an empty config directory; the client
\* application may have left anything at the live path.
\* ------------------------------------------------------------------------
Init ==
    /\ live \in LiveInputs
    /\ presetFile = [n \in Names |-> Absent]
    /\ backups = EmptyFcn
    /\ config = [m \in Managers |-> IF m = "m1" THEN DefaultConfig ELSE NoConfig]
    /\ configFile = NoConfig
    /\ now = 0
    /\ ops = 0
    /\ last = Result("init", "", "ok")
    /\ quota = NoQuota

\* _save_config: config.json := self.config
\* the entries of config.json kept beside those written
SaveConfig_Merges(cfg) ==
    Cfg(cfg.current_preset,
        [n \in DOMAIN configFile.presets \cup DOMAIN cfg.presets |->
            IF n \in DOMAIN cfg.presets THEN cfg.presets[n] ELSE configFile.presets[n]])

SaveConfig(cfg) == cfg

\* ------------------------------------------------------------------------
\* PresetManager.save_preset(name, description, watched_services)
\* ------------------------------------------------------------------------
\* a JSON value that is not an object accepted
SaveStatus_AcceptsNonObject ==
    IF ~Exists(live) THEN "FileNotFoundError"
    ELSE IF JsonLoad(live).raises THEN "JSONDecodeError"
    ELSE "ok"

SaveStatus ==
    IF ~Exists(live) THEN "FileNotFoundError"
    ELSE IF JsonLoad(live).raises THEN "JSONDecodeError"
    ELSE IF ~JsonLoad(live).isdict THEN "AttributeError"
    ELSE "ok"

\* The preset file is copied after json.load and before auth_data.keys().
\* the live file copied over every preset
SavePresetFiles_AllNames(name, status) ==
    IF status \in {"ok", "AttributeError"}
    THEN [n \in Names |-> Copy2(live)]
    ELSE presetFile

SavePresetFiles(name, status) ==
    IF status \in {"ok", "AttributeError"}
    THEN [presetFile EXCEPT ![name] = Copy2(live)]
    ELSE presetFile

\* no default for watched_services
SaveMetadata_NoDefault(auth_data, description, watched_services, t) ==
    [created_at |-> IsoFormat(t),
     last_used |-> IsoFormat(t),
     description |-> description,
     services |-> KeyList(auth_data),
     watched_services |-> watched_services.list]

SaveMetadata(auth_data, description, watched_services, t) ==
    [created_at |-> IsoFormat(t),
     last_used |-> IsoFormat(t),
     description |-> description,
     services |-> KeyList(auth_data),
     watched_services |-> IF watched_services.null THEN <<"openai">>
                          ELSE watched_services.list]

SavePreset(m, name, description, watched_services) ==
    LET status == SaveStatus
        auth_data == JsonLoad(live).d
        meta == SaveMetadata(auth_data, description, watched_services, now)
        ps == config[m].presets
        cfg == Cfg(name, [n \in DOMAIN ps \cup {name} |->
                             IF n = name THEN meta ELSE ps[n]])
    IN  /\ config[m] # NoConfig
        /\ presetFile' = SavePresetFiles(name, status)
        /\ IF status = "ok"
           THEN /\ config' = [config EXCEPT ![m] = cfg]
                /\ configFile' = SaveConfig(cfg)
           ELSE UNCHANGED <<config, configFile>>
        /\ last' = IF status = "ok"
                   THEN [CallResult(m, "save", name, status) EXCEPT
                            !.description = description, !.watched = watched_services]
                   ELSE CallResult(m, "save", name, status)
        /\ UNCHANGED <<live, backups, now>>

\* ------------------------------------------------------------------------
\* PresetManager.switch_preset(name, auto_backup) and
\* PresetManager.switch_preset_selective(name, selected_services, auto_backup)
\* ------------------------------------------------------------------------
\* Where the reads and the diff of a switch stop: the preset must exist, the
\* live file (if any) and the preset file must load, and both values must
\* have .keys().
SwitchStatus(name) ==
    IF ~Exists(presetFile[name]) THEN "FileNotFoundError"
    ELSE IF Exists(live) /\ JsonLoad(live).raises THEN "JSONDecodeError"
    ELSE IF JsonLoad(presetFile[name]).raises THEN "JSONDecodeError"
    ELSE IF Exists(live) /\ ~JsonLoad(live).isdict THEN "AttributeError"
    ELSE IF ~JsonLoad(presetFile[name]).isdict THEN "AttributeError"
    ELSE "ok"

OldAuth == IF Exists(live) THEN JsonLoad(live).d ELSE <<>>
NewAuth(name) == JsonLoad(presetFile[name]).d

\* "Create backup before switching": the directory afterwards and the path.
SwitchMakesBackup(auto_backup) == auto_backup /\ Exists(live)
\* the backup taken after the preset was copied over the live file
SwitchBackups_AfterWrite(name, auto_backup) ==
    IF SwitchMakesBackup(auto_backup)
    THEN CreateBackup(backups, Copy2(presetFile[name]), BeforeName(name, now))
    ELSE backups

SwitchBackups(name, auto_backup) ==
    IF SwitchMakesBackup(auto_backup)
    THEN CreateBackup(backups, live, BeforeName(name, now))
    ELSE backups
SwitchBackupPath(name, auto_backup) ==
    IF SwitchMakesBackup(auto_backup) THEN BeforeName(name, now) ELSE NoPath

\* current_preset set, last_used left as it was
SwitchConfig_NoLastUsed(cfg, name, t) == Cfg(name, cfg.presets)

\* "Update metadata" of switch_preset
SwitchConfig(cfg, name, t) ==
    Cfg(name,
        IF name \in DOMAIN cfg.presets
        THEN [cfg.presets EXCEPT ![name].last_used = IsoFormat(t)]
        ELSE cfg.presets)

\* the live file written with json.dump instead of copied
SwitchLive_Dumped(name) == JsonDump(JsonLoad(presetFile[name]).d)

\* The same steps as written in switch_preset_selective
SelectiveStatus(name) ==
    IF ~Exists(presetFile[name]) THEN "FileNotFoundError"
    ELSE IF Exists(live) /\ JsonLoad(live).raises THEN "JSONDecodeError"
    ELSE IF JsonLoad(presetFile[name]).raises THEN "JSONDecodeError"
    ELSE IF Exists(live) /\ ~JsonLoad(live).isdict THEN "AttributeError"
    ELSE IF ~JsonLoad(presetFile[name]).isdict THEN "AttributeError"
    ELSE "ok"

SelectiveBackups(name, auto_backup) ==
    IF auto_backup /\ Exists(live)
    THEN CreateBackup(backups, live, BeforeName(name, now))
    ELSE backups
SelectiveBackupPath(name, auto_backup) ==
    IF auto_backup /\ Exists(live) THEN BeforeName(name, now) ELSE NoPath

\* switch_preset_selective forgetting to set current_preset
SelectiveConfig_KeepsCurrent(cfg, name, t) ==
    Cfg(cfg.current_preset,
        IF name \in DOMAIN cfg.presets
        THEN [cfg.presets EXCEPT ![name].last_used = IsoFormat(t)]
        ELSE cfg.presets)

SelectiveConfig(cfg, name, t) ==
    Cfg(name,
        IF name \in DOMAIN cfg.presets
        THEN [cfg.presets EXCEPT ![name].last_used = IsoFormat(t)]
        ELSE cfg.presets)

\* shutil.copy2(preset_path, auth_path)
SwitchLive(name) == Copy2(presetFile[name])

\* json.dump(merged_auth, f, indent=2)
SelectiveLive(name, selected_services) ==
    JsonDump(MergeAuth(OldAuth, NewAuth(name), selected_services))

SwitchPreset(m, name, auto_backup) ==
    LET status == SwitchStatus(name) IN
    /\ config[m] # NoConfig
    /\ IF status = "ok"
       THEN /\ backups' = SwitchBackups(name, auto_backup)
            /\ live' = SwitchLive(name)
            /\ config' = [config EXCEPT ![m] = SwitchConfig(config[m], name, now)]
            /\ configFile' = SaveConfig(config'[m])
            /\ last' = [CallResult(m, "switch", name, "ok") EXCEPT
                           !.auto_backup = auto_backup,
                           !.diff = ComputeAuthDiff(OldAuth, NewAuth(name)),
                           !.backup_path = SwitchBackupPath(name, auto_backup)]
       ELSE /\ last' = CallResult(m, "switch", name, status)
            /\ UNCHANGED <<live, backups, config, configFile>>
    /\ UNCHANGED <<presetFile, now>>

\* the diff of what the switch does to the live mapping
SelectiveDiff_OfMerged(name, selected_services) ==
    ComputeAuthDiff(OldAuth, SelectiveLive(name, selected_services).dict)

\* diff = self._compute_auth_diff(old_auth, new_auth)
SelectiveDiff(name, selected_services) == ComputeAuthDiff(OldAuth, NewAuth(name))

SwitchPresetSelective(m, name, selected_services, auto_backup) ==
    LET status == SelectiveStatus(name) IN
    /\ config[m] # NoConfig
    /\ IF status = "ok"
       THEN /\ backups' = SelectiveBackups(name, auto_backup)
            /\ live' = SelectiveLive(name, selected_services)
            /\ config' = [config EXCEPT ![m] = SelectiveConfig(config[m], name, now)]
            /\ configFile' = SaveConfig(config'[m])
            /\ last' = [CallResult(m, "selective", name, "ok") EXCEPT
                           !.auto_backup = auto_backup,
                           !.selected = selected_services,
                           !.diff = SelectiveDiff(name, selected_services),
                           !.backup_path = SelectiveBackupPath(name, auto_backup)]
       ELSE /\ last' = CallResult(m, "selective", name, status)
            /\ UNCHANGED <<live, backups, config, configFile>>
    /\ UNCHANGED <<presetFile, now>>

\* ------------------------------------------------------------------------
\* PresetManager.delete_preset(name)
\* ------------------------------------------------------------------------
\* current_preset cleared whatever it was
DeleteConfig_ClearsCurrent(cfg, name) ==
    Cfg(NoPreset, [n \in DOMAIN cfg.presets \ {name} |-> cfg.presets[n]])

\* current_preset kept whatever it is
DeleteConfig_KeepsCurrent(cfg, name) ==
    Cfg(cfg.current_preset, [n \in DOMAIN cfg.presets \ {name} |-> cfg.presets[n]])

DeleteConfig(cfg, name) ==
    Cfg(IF cfg.current_preset = name THEN NoPreset ELSE cfg.current_preset,
        [n \in DOMAIN cfg.presets \ {name} |-> cfg.presets[n]])

DeletePreset(m, name) ==
    /\ config[m] # NoConfig
    /\ IF ~Exists(presetFile[name])
       THEN /\ last' = CallResult(m, "delete", name, "FileNotFoundError")
            /\ UNCHANGED <<presetFile, config, configFile>>
       ELSE /\ presetFile' = [presetFile EXCEPT ![name] = Absent]
            /\ config' = [config EXCEPT ![m] = DeleteConfig(config[m], name)]
            /\ configFile' = SaveConfig(config'[m])
            /\ last' = CallResult(m, "delete", name, "ok")
    /\ UNCHANGED <<live, backups, now>>

\* ------------------------------------------------------------------------
\* PresetManager.get_preset_info(name)
\* ------------------------------------------------------------------------
InfoStatus(name) ==
    IF ~Exists(presetFile[name]) THEN "ok"
    ELSE IF JsonLoad(presetFile[name]).raises THEN "JSONDecodeError"
    ELSE IF ~JsonLoad(presetFile[name]).isdict THEN "AttributeError"
    ELSE "ok"

\* the services listed in sorted order
InfoServices_Sorted(data) == SortedServices(Keys(data))

\* "services": list(data.keys())
InfoServices(data) == KeyList(data)

\* self.config["presets"].get(name, {})
MetadataOf(cfg, name) ==
    IF name \in DOMAIN cfg.presets THEN cfg.presets[name] ELSE NoMeta

\* services of a list_presets entry: [] when the file does not load or has
\* no keys()
ListServices(file) ==
    IF JsonLoad(file).raises \/ ~JsonLoad(file).isdict THEN <<>>
    ELSE KeyList(JsonLoad(file).d)

ListEntry(cfg, name) ==
    [name |-> name,
     created_at |-> MetadataOf(cfg, name).created_at,
     last_used |-> MetadataOf(cfg, name).last_used,
     description |-> MetadataOf(cfg, name).description,
     services |-> ListServices(presetFile[name]),
     is_current |-> (name = cfg.current_preset)]

\* list_presets(): the preset files in sorted order
ListPresets(m) ==
    LET files == SelectSeq(NameOrder, LAMBDA n : Exists(presetFile[n])) IN
    /\ config[m] # NoConfig
    /\ last' = [CallResult(m, "list", "", "ok") EXCEPT
                   !.listing = [i \in DOMAIN files |-> ListEntry(config[m], files[i])]]
    /\ UNCHANGED <<live, presetFile, backups, config, configFile, now>>

GetPresetInfo(m, name) ==
    /\ config[m] # NoConfig
    /\ last' = IF Exists(presetFile[name]) /\ InfoStatus(name) = "ok"
               THEN [CallResult(m, "get", name, "ok") EXCEPT
                        !.found = TRUE,
                        !.services = InfoServices(JsonLoad(presetFile[name]).d),
                        !.metadata = MetadataOf(config[m], name),
                        !.is_current = (name = config[m].current_preset)]
               ELSE CallResult(m, "get", name, InfoStatus(name))
    /\ UNCHANGED <<live, presetFile, backups, config, configFile, now>>

\* ------------------------------------------------------------------------
\* PresetManager.detect_current_preset()
\* ------------------------------------------------------------------------
\* current_auth == preset_auth compared as bytes of the two files
SameAuth_Bytes(auth, preset) == auth = preset

\* current_auth == preset_auth on the loaded values: dicts are equal
\* whatever the order of their keys; a dict never equals a non-dict.
SameAuth(auth, preset) ==
    /\ JsonLoad(auth).isdict = JsonLoad(preset).isdict
    /\ JsonLoad(auth).isdict => DictEq(JsonLoad(auth).d, JsonLoad(preset).d)

\* The presets the scan can return: files of presets_dir that load and are
\* equal to the live value.  glob() lists them in directory order, which
\* is any order, so the first match is any of them.
DetectMatches ==
    IF ~Exists(live) \/ JsonLoad(live).raises
    THEN {}
    ELSE {n \in Names : /\ Exists(presetFile[n])
                        /\ ~JsonLoad(presetFile[n]).raises
                        /\ SameAuth(live, presetFile[n])}

DetectCurrentPreset(m) ==
    /\ config[m] # NoConfig
    /\ \E r \in IF DetectMatches = {} THEN {NoPreset} ELSE DetectMatches :
          last' = CallResult(m, "detect", r, "ok")
    /\ UNCHANGED <<live, presetFile, backups, config, configFile, now>>

\* ------------------------------------------------------------------------
\* PresetManager._create_backup() with no name: backup_<stamp>.json
\* ------------------------------------------------------------------------
Backup ==
    /\ IF ~Exists(live)
       THEN /\ last' = Result("backup", "", "ok")
            /\ UNCHANGED backups
       ELSE /\ backups' = CreateBackup(backups, live, BackupName(now))
            /\ last' = [Result("backup", "", "ok") EXCEPT
                           !.backup_path = BackupName(now)]
    /\ UNCHANGED <<live, presetFile, config, configFile, now>>

\* ------------------------------------------------------------------------
\* The environment: the client application rewrites (or removes) the live
\* credential file; time passes.
\* ------------------------------------------------------------------------
ClientWritesLive(file) ==
    /\ file # live
    /\ live' = file
    /\ last' = Result("client", "", "ok")
    /\ UNCHANGED <<presetFile, backups, config, configFile, now>>

Tick(bound) ==
    /\ now < bound
    /\ now' = now + 1
    /\ last' = Result("tick", "", "ok")
    /\ UNCHANGED <<live, presetFile, backups, config, configFile>>

\* ------------------------------------------------------------------------
\* Specification of the preset store: every call of one manager, with the
\* number of steps bounded.
\* ------------------------------------------------------------------------
\* ------------------------------------------------------------------------
\* Quota collection.  Every credential entry is an OAuth entry
\* {"type": "oauth", "access": <the entry's name>}; what the usage endpoint
\* answers for an access token is drawn per token.
\* ------------------------------------------------------------------------
\* "expired": expires lies in the past; "http_error": urllib HTTPError;
\* "transport_error": URLError or timeout; "not_json": the body does not
\* decode; "json_list": the body is a JSON list; "bad_used_percent": a
\* window whose used_percent is not a number (e.g. "abc").
OpenaiKinds ==
    {"ok", "expired", "http_error", "transport_error", "not_json",
     "json_list", "bad_used_percent"}
\* An antigravity account: the refresh exchange fails, the model listing is
\* answered as expected, or it is answered by a JSON list.
GoogleKinds == {"ok", "refresh_fails", "json_list"}
AccountInputs == {<<>>} \cup {<<k>> : k \in GoogleKinds}

\* A result dict; token is the access token the fetch was made for.
QuotaResult(provider, token, has_daily, error) ==
    [provider |-> provider, token |-> token, presets |-> <<>>,
     daily |-> has_daily, error |-> error]

\* The access token of the "openai" entry of a dict, if any
ExtractOpenaiOauth(auth_data) ==
    IF "openai" \in Keys(auth_data) THEN Get(auth_data, "openai") ELSE NoEntry

\* What escapes _fetch_openai_quota_for_token: data.get on a list, and
\* float() of a non-number, are outside the try.
FetchOpenaiRaises(kind) ==
    IF kind = "json_list" THEN "AttributeError"
    ELSE IF kind = "bad_used_percent" THEN "ValueError"
    ELSE NoRaise

FetchOpenaiError(kind) ==
    IF kind = "expired" THEN "Token expired"
    ELSE IF kind = "http_error" THEN "OpenAI API error"
    ELSE IF kind = "transport_error" THEN "URLError"
    ELSE IF kind = "not_json" THEN "JSONDecodeError"
    ELSE NoError

FetchOpenaiQuotaForToken(access_token, kind) ==
    [raises |-> FetchOpenaiRaises(kind),
     requests |-> IF kind = "expired" THEN 0 ELSE 1,
     result |-> QuotaResult("openai", access_token, kind = "ok", FetchOpenaiError(kind))]

\* _fetch_google_quota_for_token for one antigravity account
FetchGoogleQuotaForToken(kind) ==
    [raises |-> IF kind = "json_list" THEN "AttributeError" ELSE NoRaise,
     results |-> IF kind = "refresh_fails"
                 THEN <<QuotaResult("google", "antigravity", FALSE,
                                    "No access token (Refresh failed)")>>
                 ELSE <<QuotaResult("google", "antigravity", TRUE, NoError)>>]

\* The names of the presets whose file loads as a dict, sorted
ListPresetAuthData ==
    SelectSeq(NameOrder, LAMBDA n : /\ Exists(presetFile[n])
                                    /\ ~JsonLoad(presetFile[n]).raises
                                    /\ JsonLoad(presetFile[n]).isdict)

\* token_map: access token -> the preset names carrying it, in the order
\* the tokens are first met
RECURSIVE TokenMap(_)
TokenMap(names) ==
    IF names = <<>> THEN <<>>
    ELSE LET before == TokenMap(SubSeq(names, 1, Len(names) - 1))
             preset_name == names[Len(names)]
             access == ExtractOpenaiOauth(JsonLoad(presetFile[preset_name]).d)
         IN  IF access = NoEntry THEN before
             ELSE IF access \in Keys(before)
             THEN DictSet(before, access, Append(Get(before, access), preset_name))
             ELSE Append(before, <<access, <<preset_name>>>>)

\* The fetch loop of collect_openai_quota: an exception of a fetch leaves
\* the loop and the collector.
RECURSIVE FetchAll(_, _)
FetchAll(items, provider) ==
    IF items = <<>> THEN [raised |-> NoRaise, results |-> <<>>, fetched |-> <<>>]
    ELSE LET before == FetchAll(SubSeq(items, 1, Len(items) - 1), provider)
             item == items[Len(items)]
             f == FetchOpenaiQuotaForToken(item[1], provider[item[1]])
         IN  IF before.raised # NoRaise THEN before
             ELSE IF f.raises # NoRaise
             THEN [raised |-> f.raises, results |-> <<>>,
                   fetched |-> Append(before.fetched, item[1])]
             ELSE [raised |-> NoRaise,
                   results |-> Append(before.results,
                                      [f.result EXCEPT !.presets = SortedNames(SeqSet(item[2]))]),
                   fetched |-> Append(before.fetched, item[1])]

CollectOpenai(provider) == FetchAll(TokenMap(ListPresetAuthData), provider)

\* "1. Main auth.json": everything is inside try ... except Exception: pass
ActiveOpenai(provider) ==
    LET access == ExtractOpenaiOauth(JsonLoad(live).d)
        f == FetchOpenaiQuotaForToken(access, provider[access])
    IN  IF \/ ~Exists(live)
           \/ JsonLoad(live).raises
           \/ ~JsonLoad(live).isdict
           \/ access = NoEntry
        THEN [raised |-> NoRaise, results |-> <<>>, fetched |-> <<>>]
        ELSE [raised |-> NoRaise,
              results |-> IF f.raises # NoRaise THEN <<>>
                          ELSE <<[f.result EXCEPT !.presets = <<"(Current Active)">>]>>,
              fetched |-> <<access>>]

\* "2. Antigravity Accounts"
RECURSIVE ActiveAntigravity(_)
ActiveAntigravity(accounts) ==
    IF accounts = <<>> THEN [raised |-> NoRaise, results |-> <<>>, fetched |-> <<>>]
    ELSE LET before == ActiveAntigravity(SubSeq(accounts, 1, Len(accounts) - 1))
             g == FetchGoogleQuotaForToken(accounts[Len(accounts)])
         IN  IF before.raised # NoRaise THEN before
             ELSE IF g.raises # NoRaise
             THEN [before EXCEPT !.raised = g.raises, !.results = <<>>]
             ELSE [before EXCEPT !.results =
                      before.results \o [i \in DOMAIN g.results |->
                           [g.results[i] EXCEPT !.presets = <<"(Antigravity)">>]]]

\* One collector after the other: the results of both, or the exception of
\* the first that raises.
Then(a, b) ==
    IF a.raised # NoRaise THEN a
    ELSE IF b.raised # NoRaise
    THEN [raised |-> b.raised, results |-> <<>>, fetched |-> a.fetched \o b.fetched]
    ELSE [raised |-> NoRaise, results |-> a.results \o b.results,
          fetched |-> a.fetched \o b.fetched]

CollectActive(provider, accounts) == Then(ActiveOpenai(provider), ActiveAntigravity(accounts))

CollectAll(provider, accounts) == Then(CollectActive(provider, accounts), CollectOpenai(provider))

Collected(m, op, c) ==
    /\ config[m] # NoConfig
    /\ quota' = [quota EXCEPT !.call = [op |-> op, raised |-> c.raised,
                                        results |-> c.results, fetched |-> c.fetched]]
    /\ last' = CallResult(m, op, "", IF c.raised = NoRaise THEN "ok" ELSE c.raised)
    /\ UNCHANGED <<live, presetFile, backups, config, configFile, now, ops>>

CollectOpenaiQuota(m) == Collected(m, "collect_openai", CollectOpenai(quota.provider))

CollectActiveQuota(m) ==
    Collected(m, "collect_active", CollectActive(quota.provider, quota.antigravity))

CollectAllQuota(m) ==
    Collected(m, "collect_all", CollectAll(quota.provider, quota.antigravity))


\* ------------------------------------------------------------------------
\* Quota window math.  used_percent is a decimal number, held as a whole
\* number of tenths; times are in ticks of the clock.
\* ------------------------------------------------------------------------
MaxUsed == 160
MaxResetSeconds == 7300
UsedInputs == (0 - MaxUsed * 10) .. (MaxUsed * 10)

\* Python's round(x) of x tenths: to the nearest integer, a tie to the
\* even one.
Round(x) ==
    LET q == x \div 10
        r == x % 10
    IN  IF r < 5 THEN q
        ELSE IF r > 5 THEN q + 1
        ELSE IF q % 2 = 0 THEN q ELSE q + 1

\* int(remaining) where round(remaining) is
RemainingPercent_Truncates(used_percent) ==
    LET remaining == 1000 - used_percent
    IN  IF remaining < 0 THEN 0
        ELSE IF remaining > 1000 THEN 100
        ELSE remaining \div 10

RemainingPercent(used_percent) ==
    LET remaining == 1000 - used_percent
    IN  IF remaining < 0 THEN 0
        ELSE IF remaining > 1000 THEN 100
        ELSE Round(remaining)

\* reset_time_iso: None (or ""), a string that is no ISO time, or the ISO
\* form of a time
NoReset == [kind |-> "none", t |-> 0]
NotIso == [kind |-> "not_iso", t |-> 0]
ResetAt(t) == [kind |-> "iso", t |-> t]
ResetInputs ==
    {NoReset, NotIso}
    \cup {ResetAt(t) : t \in (0 - 2 * TicksPerSecond) .. (MaxResetSeconds * TicksPerSecond)}

\* The text returned: "-", "Resetting...", f"{hours}h {minutes}m" or
\* f"{minutes}m"
Text(format, hours, minutes) == [format |-> format, hours |-> hours, minutes |-> minutes]

\* minutes as computed, also below one minute
TimeUntilReset_ZeroMinutes(reset_time_iso, t) ==
    LET delta == reset_time_iso.t - t
        total_seconds == delta \div TicksPerSecond
        hours == total_seconds \div 3600
        minutes == (total_seconds % 3600) \div 60
    IN  IF reset_time_iso.kind # "iso" THEN Text("-", 0, 0)
        ELSE IF delta < 0 THEN Text("Resetting...", 0, 0)
        ELSE IF hours > 0 THEN Text("<h>h <m>m", hours, minutes)
        ELSE Text("<m>m", 0, minutes)

TimeUntilReset(reset_time_iso, t) ==
    LET delta == reset_time_iso.t - t
        total_seconds == delta \div TicksPerSecond
        hours == total_seconds \div 3600
        minutes == IF total_seconds > 0 /\ hours = 0 /\ (total_seconds % 3600) \div 60 = 0
                   THEN 1
                   ELSE (total_seconds % 3600) \div 60
    IN  IF reset_time_iso.kind # "iso" THEN Text("-", 0, 0)
        ELSE IF delta < 0 THEN Text("Resetting...", 0, 0)
        ELSE IF hours > 0 THEN Text("<h>h <m>m", hours, minutes)
        ELSE Text("<m>m", 0, minutes)

RemainingPercentCall(used_percent) ==
    /\ quota' = [quota EXCEPT !.call = [op |-> "remaining_percent", used |-> used_percent,
                                        result |-> RemainingPercent(used_percent)]]
    /\ UNCHANGED <<live, presetFile, backups, config, configFile, now, ops, last>>

TimeUntilResetCall(reset_time_iso) ==
    /\ quota' = [quota EXCEPT !.call = [op |-> "time_until_reset", reset |-> reset_time_iso,
                                        result |-> TimeUntilReset(reset_time_iso, now)]]
    /\ UNCHANGED <<live, presetFile, backups, config, configFile, now, ops, last>>


\* ------------------------------------------------------------------------
\* One per-token fetch, request by request.
\* ------------------------------------------------------------------------
MaxExpires == 1200
MaxFraction == 1000

\* None, as a token or as expires
None == "None"

\* int(time.time() * 1000)
NowMs(t) == (t * 1000) \div TicksPerSecond

\* expires of an OAuth entry: absent, a string, or a number of milliseconds
NoExpires == [kind |-> "absent", v |-> 0]
TextExpires == [kind |-> "string", v |-> 0]
NumExpires(v) == [kind |-> "number", v |-> v]
ExpiresInputs == {NoExpires, TextExpires} \cup {NumExpires(v) : v \in 0 .. MaxExpires}

\* expired also at the very millisecond of expiry
TokenExpired_AtExpiry(expires, now_ms) == expires.kind = "number" /\ expires.v <= now_ms

\* isinstance(expires, (int, float)) and expires < now_ms
TokenExpired(expires, now_ms) == expires.kind = "number" /\ expires.v < now_ms

FetchOpenai(access_token, expires, now_ms, answer) ==
    FetchOpenaiQuotaForToken(access_token,
                             IF TokenExpired(expires, now_ms) THEN "expired" ELSE answer)

FetchOpenaiCall(expires, answer) ==
    LET f == FetchOpenai("credA", expires, NowMs(now), answer) IN
    /\ quota' = [quota EXCEPT !.call = [op |-> "fetch_openai", expires |-> expires,
                                        now_ms |-> NowMs(now), answer |-> answer,
                                        requests |-> f.requests, raised |-> f.raises,
                                        result |-> f.result]]
    /\ UNCHANGED <<live, presetFile, backups, config, configFile, now, ops, last>>

\* What the model-listing endpoint answers: HTTP 401, another HTTP error, a
\* transport error, a body that is not JSON, an empty body value ({} or
\* null), a JSON list, or a listing of models.
ListingKinds ==
    {"401", "http_error", "transport_error", "not_json", "empty", "json_list", "models"}
ListingRaises == {"401", "http_error", "transport_error", "not_json"}

\* A model entry of the listing: its key, whether it has quotaInfo, and
\* the remainingFraction in thousandths.
Model(key, has_quota, fraction) == [key |-> key, has_quota |-> has_quota, fraction |-> fraction]
LabelOrder == <<"Claude", "G3Flash">>
Label(key) == IF key = "gemini-3-flash" THEN "G3Flash" ELSE "Claude"
LabelRank(label) == CHOOSE i \in DOMAIN LabelOrder : LabelOrder[i] = label

\* A request: the endpoint and the token it carries
Request(to, token) == [to |-> to, token |-> token]

\* A result dict of the Google fetch
GoogleError(error) ==
    [provider |-> "google", error |-> error, label |-> "", percent_remaining |-> -1,
     fraction |-> -1]
GoogleQuota(label, percent, fraction) ==
    [provider |-> "google", error |-> NoError, label |-> label,
     percent_remaining |-> percent, fraction |-> fraction]

\* a token also when the exchange fails
RefreshGoogleToken_NeverFails(refresh_token, answer) ==
    IF refresh_token = None THEN [token |-> None, requests |-> <<>>]
    ELSE [token |-> "fresh", requests |-> <<Request("refresh", refresh_token)>>]

\* _refresh_google_token: no request without a refresh token; the new
\* access token, or None when the exchange fails
RefreshGoogleToken(refresh_token, answer) ==
    IF refresh_token = None THEN [token |-> None, requests |-> <<>>]
    ELSE [token |-> IF answer = "ok" THEN "fresh" ELSE None,
          requests |-> <<Request("refresh", refresh_token)>>]

\* int(remaining * 100), remaining in thousandths
PercentRemaining(remaining) == remaining \div 10

\* results.sort(key=label): a stable insertion sort
RECURSIVE SortByLabel(_)
SortByLabel(results) ==
    IF results = <<>> THEN <<>>
    ELSE LET sorted == SortByLabel(SubSeq(results, 1, Len(results) - 1))
             x == results[Len(results)]
             le == SelectSeq(sorted, LAMBDA r : LabelRank(r.label) <= LabelRank(x.label))
             gt == SelectSeq(sorted, LAMBDA r : LabelRank(r.label) > LabelRank(x.label))
         IN  le \o <<x>> \o gt

\* "Iterate over all available models"
RECURSIVE ModelResults(_)
ModelResults(models) ==
    IF models = <<>> THEN <<>>
    ELSE LET m == models[Len(models)]
             before == ModelResults(SubSeq(models, 1, Len(models) - 1))
         IN  IF ~m.has_quota THEN before
             ELSE Append(before,
                         GoogleQuota(Label(m.key), PercentRemaining(m.fraction), m.fraction))

\* What is done with the decoded body
Interpret(kind, models) ==
    IF kind = "empty" THEN [raises |-> NoRaise, results |-> <<GoogleError("No data received")>>]
    ELSE IF kind = "json_list" THEN [raises |-> "AttributeError", results |-> <<>>]
    ELSE IF ModelResults(models) = <<>>
    THEN [raises |-> NoRaise, results |-> <<GoogleError("No quota info found")>>]
    ELSE [raises |-> NoRaise, results |-> SortByLabel(ModelResults(models))]

\* the retry is made whatever token got the 401
MayRetry_Always(token, access_token, refresh_token) == refresh_token # None

\* refresh_token and token == access_token
MayRetry(token, access_token, refresh_token) ==
    refresh_token # None /\ token = access_token

\* _fetch_google_quota_for_token.  env.refresh[i] answers the i-th refresh
\* request, env.listing[i] the i-th model-listing request.
FetchGoogle(access_token, refresh_token, env) ==
    LET first == IF access_token = None /\ refresh_token # None
                 THEN RefreshGoogleToken(refresh_token, env.refresh[1])
                 ELSE [token |-> access_token, requests |-> <<>>]
        token == first.token
        listing1 == Append(first.requests, Request("models", token))
        again == RefreshGoogleToken(refresh_token, env.refresh[Len(first.requests) + 1])
        listing2 == listing1 \o again.requests \o <<Request("models", again.token)>>
        done(requests, error) ==
            [raises |-> NoRaise, results |-> <<GoogleError(error)>>, requests |-> requests]
        read(requests, kind) ==
            [raises |-> Interpret(kind, env.models).raises,
             results |-> Interpret(kind, env.models).results,
             requests |-> requests]
    IN  IF token = None THEN done(first.requests, "No access token (Refresh failed)")
        ELSE IF env.listing[1] = "401" /\ MayRetry(token, access_token, refresh_token)
        THEN IF again.token = None
             THEN done(listing1 \o again.requests, "Token expired (Refresh failed)")
             ELSE IF env.listing[2] \in ListingRaises
             THEN done(listing2, "Retry failed")
             ELSE read(listing2, env.listing[2])
        ELSE IF env.listing[1] \in {"401", "http_error"} THEN done(listing1, "HTTP error")
        ELSE IF env.listing[1] \in ListingRaises THEN done(listing1, "str(exc)")
        ELSE read(listing1, env.listing[1])

FetchGoogleCall(access_token, refresh_token, env) ==
    LET f == FetchGoogle(access_token, refresh_token, env) IN
    /\ quota' = [quota EXCEPT !.call = [op |-> "fetch_google", access |-> access_token,
                                        refresh |-> refresh_token, env |-> env,
                                        requests |-> f.requests, raised |-> f.raises,
                                        results |-> f.results]]
    /\ UNCHANGED <<live, presetFile, backups, config, configFile, now, ops, last>>


Step == ops < MaxOps /\ ops' = ops + 1 /\ UNCHANGED quota

Next ==
    \/ \E n \in Names, a \in SaveInputs :
          Step /\ SavePreset("m1", n, a[1], a[2])
    \/ \E n \in Names, b \in BOOLEAN :
          Step /\ SwitchPreset("m1", n, b)
    \/ \E n \in Names, a \in SelectiveInputs :
          Step /\ SwitchPresetSelective("m1", n, a[1], a[2])
    \/ \E n \in Names : Step /\ DeletePreset("m1", n)
    \/ \E n \in Names : Step /\ GetPresetInfo("m1", n)
    \/ Step /\ DetectCurrentPreset("m1")
    \/ \E f \in LiveInputs : Step /\ ClientWritesLive(f)
    \/ Step /\ Tick(MaxTime)

Spec == Init /\ [][Next]_vars

\* ------------------------------------------------------------------------
\* Specification of two managers on one config directory, both constructed
\* before either wrote: each holds its own copy of the config.
\* ------------------------------------------------------------------------
InitTwo ==
    /\ live \in LiveInputs
    /\ presetFile = [n \in Names |-> Absent]
    /\ backups = EmptyFcn
    /\ config = [m \in Managers |-> DefaultConfig]
    /\ configFile = NoConfig
    /\ now = 0
    /\ ops = 0
    /\ last = Result("init", "", "ok")
    /\ quota = NoQuota

NextTwo ==
    \/ \E m \in Managers, n \in Names : Step /\ SavePreset(m, n, "", Null)
    \/ \E m \in Managers, n \in Names : Step /\ SwitchPreset(m, n, TRUE)
    \/ \E m \in Managers, n \in Names :
          Step /\ SwitchPresetSelective(m, n, Some(<<"openai">>), TRUE)
    \/ \E m \in Managers, n \in Names : Step /\ DeletePreset(m, n)
    \/ \E m \in Managers, n \in Names : Step /\ GetPresetInfo(m, n)
    \/ Step /\ Tick(MaxTime)

SpecTwo == InitTwo /\ [][NextTwo]_vars

\* ------------------------------------------------------------------------
\* Specification of the quota collectors: any preset files, any live file,
\* any answer of the provider for each token.
\* ------------------------------------------------------------------------
QuotaFiles ==
    {Absent, Malformed, NonObject}
    \cup {ObjFile(d, "ext") : d \in {<<>>, <<<<"openai", "credA">>>>, <<<<"openai", "credB">>>>,
                                      <<<<"anthropic", "credA">>, <<"openai", "credA">>>>}}
QuotaLive ==
    {Absent, Malformed, NonObject, ObjFile(<<<<"anthropic", "credA">>>>, "ext"),
     ObjFile(<<<<"openai", "credA">>>>, "ext")}

InitQuota ==
    /\ live \in QuotaLive
    /\ presetFile \in [Names -> QuotaFiles]
    /\ backups = EmptyFcn
    /\ config = [m \in Managers |-> IF m = "m1" THEN DefaultConfig ELSE NoConfig]
    /\ configFile = NoConfig
    /\ now = 0
    /\ ops = 0
    /\ last = Result("init", "", "ok")
    /\ \E p \in [Creds -> OpenaiKinds], a \in AccountInputs :
          quota = [provider |-> p, antigravity |-> a, call |-> NoCall]

NextQuota ==
    \/ CollectOpenaiQuota("m1")
    \/ CollectActiveQuota("m1")
    \/ CollectAllQuota("m1")

SpecQuota == InitQuota /\ [][NextQuota]_vars

\* ------------------------------------------------------------------------
\* Specification of the quota window math: one call of _remaining_percent
\* or of time_until_reset, at any time of the clock.
\* ------------------------------------------------------------------------
Idle == quota.call = NoCall

NextFormat ==
    \/ Idle /\ \E u \in UsedInputs : RemainingPercentCall(u)
    \/ Idle /\ \E r \in ResetInputs : TimeUntilResetCall(r)
    \/ Idle /\ Tick(MaxTime) /\ UNCHANGED <<ops, quota>>

InitFormat == Init /\ live = Absent

SpecFormat == InitFormat /\ [][NextFormat]_vars

\* ------------------------------------------------------------------------
\* Specification of one per-token fetch: any tokens, any answers of the
\* endpoints, at any time of the clock.
\* ------------------------------------------------------------------------
\* Every sequence of answers with one model of some remaining fraction,
\* and every listing of two models for a first answer of "models".
OneModel == {<<Model("gemini-3-flash", TRUE, 500)>>}
TwoModels ==
    {<<Model(k1, q1, 250), Model(k2, q2, 999)>> :
        k1 \in {"gemini-3-flash", "claude-opus-4-5"}, k2 \in {"gemini-3-flash", "claude-opus-4-5"},
        q1 \in BOOLEAN, q2 \in BOOLEAN}
GoogleEnvs ==
    {[refresh |-> <<r1, r2>>, listing |-> <<l1, l2>>, models |-> m] :
        r1 \in {"ok", "fails"}, r2 \in {"ok", "fails"},
        l1 \in ListingKinds, l2 \in ListingKinds, m \in OneModel}
    \cup {[refresh |-> <<"ok", "ok">>, listing |-> <<"models", "models">>, models |-> m] :
             m \in {<<>>} \cup TwoModels
                   \cup {<<Model("gemini-3-flash", TRUE, f)>> : f \in 0 .. MaxFraction}}

NextFetch ==
    \/ Idle /\ \E e \in ExpiresInputs, a \in OpenaiKinds \ {"expired"} : FetchOpenaiCall(e, a)
    \/ Idle /\ \E a \in {None, "access"}, r \in {None, "refresh"}, env \in GoogleEnvs :
                  FetchGoogleCall(a, r, env)
    \/ Idle /\ Tick(MaxTime) /\ UNCHANGED <<ops, quota>>

SpecFetch == InitFormat /\ [][NextFetch]_vars

\* ------------------------------------------------------------------------
\* Specification of the backup directory over many seconds: backups with
\* and without a name (the latter made by switches to the preset "work"),
\* with a fixed live file.  Time passes a whole second at a time and only
\* after a second in which a backup was made; at most MaxBefore before_*
\* files are made.
\* ------------------------------------------------------------------------
MaxBefore == 2
WorkLive == ObjFile(<<<<"openai", "credA">>>>, "ext")
InitBackup ==
    /\ live \in {Absent, WorkLive}
    /\ presetFile = [n \in Names |-> Absent]
    /\ backups = EmptyFcn
    /\ config = [m \in Managers |-> IF m = "m1" THEN DefaultConfig ELSE NoConfig]
    /\ configFile = NoConfig
    /\ now = 0
    /\ ops = 0
    /\ last = Result("init", "", "ok")
    /\ quota = NoQuota

BeforeFiles(dir) == {n \in DOMAIN dir : n.pfx = "before"}
BackupFiles(dir) == {n \in DOMAIN dir : MatchesBackupGlob(n)}
Free == UNCHANGED <<ops, quota>>

SecondPasses ==
    /\ Stamp(now) < MaxBackupTime
    /\ \E n \in DOMAIN backups : n.ts = Stamp(now)
    /\ now' = now + TicksPerSecond
    /\ last' = Result("tick", "", "ok")
    /\ UNCHANGED <<live, presetFile, backups, config, configFile>>

NextBackup ==
    \/ Free /\ Backup
    \/ Free /\ ~Exists(presetFile["work"]) /\ SavePreset("m1", "work", "", Null)
    \/ Free /\ Cardinality(BeforeFiles(backups)) < MaxBefore
            /\ SwitchPreset("m1", "work", TRUE)
    \/ Free /\ SecondPasses

SpecBackup == InitBackup /\ [][NextBackup]_vars

\* ------------------------------------------------------------------------
\* Specification of all operations of one manager together, the quota
\* collectors included.
\* ------------------------------------------------------------------------
FrameLive ==
    {Absent, NonObject, WorkLive,
     ObjFile(<<<<"anthropic", "credA">>, <<"openai", "credB">>>>, "ext")}
FrameProviders ==
    {[c \in Creds |-> "ok"], [c \in Creds |-> IF c = "credA" THEN "json_list" ELSE "http_error"]}

InitFrame ==
    /\ live \in FrameLive
    /\ presetFile = [n \in Names |-> Absent]
    /\ backups = EmptyFcn
    /\ config = [m \in Managers |-> IF m = "m1" THEN DefaultConfig ELSE NoConfig]
    /\ configFile = NoConfig
    /\ now = 0
    /\ ops = 0
    /\ last = Result("init", "", "ok")
    /\ \E p \in FrameProviders :
          quota = [provider |-> p, antigravity |-> <<"ok">>, call |-> NoCall]

NextFrame ==
    \/ \E n \in Names : Step /\ SavePreset("m1", n, "", Null)
    \/ \E n \in Names : Step /\ SwitchPreset("m1", n, TRUE)
    \/ \E n \in Names : Step /\ SwitchPresetSelective("m1", n, Some(<<"openai">>), TRUE)
    \/ \E n \in Names : Step /\ DeletePreset("m1", n)
    \/ \E n \in Names : Step /\ GetPresetInfo("m1", n)
    \/ Step /\ ListPresets("m1")
    \/ Step /\ DetectCurrentPreset("m1")
    \/ Idle /\ CollectOpenaiQuota("m1")
    \/ Idle /\ CollectActiveQuota("m1")
    \/ Idle /\ CollectAllQuota("m1")
    \/ \E f \in FrameLive : Step /\ ClientWritesLive(f)

SpecFrame == InitFrame /\ [][NextFrame]_vars

\* ------------------------------------------------------------------------
\* Specification of switches after save("work"): the client application
\* rewrites the live file, the manager switches to the saved preset.
\* ------------------------------------------------------------------------
InitSwitch ==
    /\ live = WorkLive
    /\ presetFile = [n \in Names |-> IF n = "work" THEN Copy2(WorkLive) ELSE Absent]
    /\ backups = EmptyFcn
    /\ config = [m \in Managers |->
                    IF m = "m1"
                    THEN Cfg("work", [n \in {"work"} |-> SaveMetadata(WorkLive.dict, "", Null, 0)])
                    ELSE NoConfig]
    /\ configFile = config["m1"]
    /\ now = 0
    /\ ops = 0
    /\ last = CallResult("m1", "save", "work", "ok")
    /\ quota = NoQuota

NextSwitch ==
    \/ \E f \in LiveInputs : Step /\ ClientWritesLive(f)
    \/ \E b \in BOOLEAN : Step /\ SwitchPreset("m1", "work", b)
    \/ \E a \in SelectiveInputs : Step /\ SwitchPresetSelective("m1", "work", a[1], a[2])
    \/ Step /\ Tick(MaxTime)

SpecSwitch == InitSwitch /\ [][NextSwitch]_vars

\* ------------------------------------------------------------------------
\* Vocabulary of the properties
\* ------------------------------------------------------------------------
Store == <<live, presetFile, backups, config, configFile>>
IsSwitch(r) == r.op \in {"switch", "selective"}
Ok(r) == r.status = "ok"
\* The mapping of a live file, an absent one counting as empty (unprimed:
\* the mapping before the step).
LiveMapping == IF Exists(live) THEN live.dict ELSE <<>>
\* d lists exactly the set S, in sorted order and without repetition
Lists(d, S) == SeqSet(d) = S /\ d = SortedServices(S)
Has(d, s) == s \in Keys(d)
SameAt(a, b, s) == (Has(a, s) <=> Has(b, s)) /\ (Has(a, s) => Get(a, s) = Get(b, s))

\* C1: whenever save, switch (full or selective) or delete fails, the call
\* has written, overwritten or removed nothing: preset files, live file,
\* backup files, persisted and in-memory config are as before the call.
C1_FailedCallWritesNothing ==
    [][(last'.op \in {"save", "switch", "selective", "delete"} /\ ~Ok(last'))
          => UNCHANGED Store]_vars

\* C2: a full switch(p, autoBackup = true) on an existing live file returns
\* diff(live-before, p), creates exactly one backup file (the one it
\* returns, holding the bytes of the live file before the switch) and leaves
\* the live file byte-identical to the preset file of p.
C2_FullSwitch ==
    [][(last'.op = "switch" /\ Ok(last') /\ last'.auto_backup /\ Exists(live))
          => LET old == live.dict
                 new == presetFile[last'.name].dict
                 d == last'.diff
                 bp == last'.backup_path
             IN  /\ Lists(d.added, Keys(new) \ Keys(old))
                 /\ Lists(d.removed, Keys(old) \ Keys(new))
                 /\ Lists(d.modified,
                          {s \in Keys(old) \cap Keys(new) : Get(old, s) # Get(new, s)})
                 /\ Lists(d.unchanged,
                          {s \in Keys(old) \cap Keys(new) : Get(old, s) = Get(new, s)})
                 /\ bp # NoPath
                 /\ DOMAIN backups' = DOMAIN backups \cup {bp}
                 /\ backups'[bp] = live
                 /\ \A n \in DOMAIN backups \ {bp} : backups'[n] = backups[n]
                 /\ presetFile' = presetFile
                 /\ live' = presetFile[last'.name]]_vars

\* The example of the specification: the live file had openai and anthropic,
\* the preset has openai only.
C2_Witness ==
    /\ last.op = "switch" /\ Ok(last) /\ last.auto_backup
    /\ last.backup_path \in DOMAIN backups
    /\ last.diff.removed = <<"anthropic">>
    /\ last.diff.modified = <<"openai">>
    /\ live = presetFile[last.name]
    /\ Keys(live.dict) = {"openai"}

\* C3: in a selective switch with a non-null selectedServices, for every
\* selected service s: if the preset has s, the live mapping afterwards has
\* s with the preset's value; if the preset lacks s, the live mapping
\* afterwards lacks s (it is removed if it was there, and nothing changes
\* for it if it was not).
C3_SelectedServices ==
    [][(last'.op = "selective" /\ Ok(last') /\ ~last'.selected.null)
          => LET new == presetFile[last'.name].dict
                 after == live'.dict
             IN  /\ live'.kind = "obj"
                 /\ \A s \in SeqSet(last'.selected.list) :
                       IF Has(new, s)
                       THEN Has(after, s) /\ Get(after, s) = Get(new, s)
                       ELSE ~Has(after, s)]_vars

\* A selected service that the live file had and the preset omits is gone,
\* and a selected service of the preset is there.
C3_Witness ==
    /\ last.op = "selective" /\ Ok(last) /\ ~last.selected.null
    /\ \E s \in SeqSet(last.selected.list) :
          s \in SeqSet(last.diff.removed) /\ ~Has(live.dict, s)
    /\ \E s \in SeqSet(last.selected.list) :
          s \in SeqSet(last.diff.modified) /\ Has(live.dict, s)

\* C4: in a selective switch with a non-null selectedServices, every service
\* that is not selected is exactly as in the live mapping before the switch;
\* with selectedServices = [] the live mapping is the old one, and the
\* empty one when there was no live file.
C4_UnselectedServices ==
    [][(last'.op = "selective" /\ Ok(last') /\ ~last'.selected.null)
          => LET old == LiveMapping
                 after == live'.dict
             IN  /\ live'.kind = "obj"
                 /\ \A s \in Services \ SeqSet(last'.selected.list) :
                       SameAt(old, after, s)
                 /\ last'.selected.list = <<>> => DictEq(after, old)
                 /\ (last'.selected.list = <<>> /\ ~Exists(live)) => after = <<>>]_vars

\* An unselected service on which the live file and the preset disagreed is
\* still in the live file while a selected one was changed.
C4_Witness ==
    /\ last.op = "selective" /\ Ok(last) /\ ~last.selected.null
    /\ last.selected.list # <<>>
    /\ \E s \in Services \ SeqSet(last.selected.list) :
          /\ s \in SeqSet(last.diff.modified)
          /\ Has(live.dict, s)
          /\ Get(live.dict, s) # Get(presetFile[last.name].dict, s)
    /\ \E s \in SeqSet(last.selected.list) : s \in SeqSet(last.diff.modified)

\* C5: a selective switch with selectedServices = null leaves the live
\* mapping equal to the preset mapping, whatever the old mapping was;
\* services of the old mapping that the preset omits are removed.
C5_NullSelectionReplaces ==
    [][(last'.op = "selective" /\ Ok(last') /\ last'.selected.null)
          => /\ live'.kind = "obj"
             /\ DictEq(live'.dict, presetFile[last'.name].dict)
             /\ \A s \in Keys(LiveMapping) \ Keys(presetFile[last'.name].dict) :
                   ~Has(live'.dict, s)]_vars

C5_Witness ==
    /\ last.op = "selective" /\ Ok(last) /\ last.selected.null
    /\ last.diff.removed # <<>>
    /\ last.diff.modified # <<>>
    /\ DictEq(live.dict, presetFile[last.name].dict)

\* C6: diff(A, B): added, removed, modified and unchanged are pairwise
\* disjoint, their union is keys(A) \cup keys(B), added = keys(B) \ keys(A),
\* removed = keys(A) \ keys(B), a common key is in modified exactly when its
\* two values differ and else in unchanged; diff(A, A) has empty added,
\* removed and modified.
C6_DiffPartitions ==
    [][(IsSwitch(last') /\ Ok(last'))
          => LET A == LiveMapping
                 B == presetFile[last'.name].dict
                 d == last'.diff
                 added == SeqSet(d.added)
                 removed == SeqSet(d.removed)
                 modified == SeqSet(d.modified)
                 unchanged == SeqSet(d.unchanged)
             IN  /\ added \cap removed = {} /\ added \cap modified = {}
                 /\ added \cap unchanged = {} /\ removed \cap modified = {}
                 /\ removed \cap unchanged = {} /\ modified \cap unchanged = {}
                 /\ added \cup removed \cup modified \cup unchanged = Keys(A) \cup Keys(B)
                 /\ added = Keys(B) \ Keys(A)
                 /\ removed = Keys(A) \ Keys(B)
                 /\ \A s \in Keys(A) \cap Keys(B) :
                       /\ s \in modified <=> Get(A, s) # Get(B, s)
                       /\ s \in unchanged <=> Get(A, s) = Get(B, s)
                 /\ DictEq(A, B) => d.added = <<>> /\ d.removed = <<>> /\ d.modified = <<>>
                 /\ Len(d.added) = Cardinality(added)
                 /\ Len(d.removed) = Cardinality(removed)
                 /\ Len(d.modified) = Cardinality(modified)
                 /\ Len(d.unchanged) = Cardinality(unchanged)]_vars

\* A diff with a modified and an unchanged service at once.
C6_Witness ==
    /\ IsSwitch(last) /\ Ok(last)
    /\ last.diff.modified # <<>>
    /\ last.diff.unchanged # <<>>

\* A diff of two equal mappings that are not empty.
C6_WitnessEqual ==
    /\ IsSwitch(last) /\ Ok(last)
    /\ Len(last.diff.unchanged) = 2
    /\ last.diff.added = <<>> /\ last.diff.removed = <<>> /\ last.diff.modified = <<>>

\* C7: in every switch the backup holds the live content as it was before
\* the switch overwrote it; a backup is made exactly when autoBackup is true
\* and the live file exists, otherwise no backup path is returned and no
\* backup file is created or changed.
C7_BackupBeforeOverwrite ==
    [][IsSwitch(last')
          => LET bp == last'.backup_path IN
             IF Ok(last') /\ last'.auto_backup /\ Exists(live)
             THEN /\ bp # NoPath
                  /\ DOMAIN backups' = DOMAIN backups \cup {bp}
                  /\ backups'[bp] = live
                  /\ \A n \in DOMAIN backups \ {bp} : backups'[n] = backups[n]
             ELSE /\ bp = NoPath
                  /\ backups' = backups]_vars

\* A backup that differs from the live file the switch wrote.
C7_Witness ==
    /\ IsSwitch(last) /\ Ok(last) /\ last.auto_backup
    /\ last.backup_path \in DOMAIN backups
    /\ backups[last.backup_path] # live
    /\ ~DictEq(backups[last.backup_path].dict, live.dict)

\* A switch that made no backup because there was no live file.
C7_WitnessNoLive ==
    /\ IsSwitch(last) /\ Ok(last) /\ last.auto_backup
    /\ last.backup_path = NoPath
    /\ Exists(live)

\* C8: backup rotation.  At most 10 backup_* files exist; a backup without a
\* name leaves exactly the 10 greatest by name of the backup_* files there
\* were plus the new one (all of them when they are at most 10), the new
\* one among them; no step removes or changes a before_* file.
Greatest(S, k) == {n \in S : Cardinality({m \in S : m.ts > n.ts}) < k}
C8_Rotation ==
    [][/\ Cardinality(BackupFiles(backups')) <= KeepBackups
       /\ \A n \in BeforeFiles(backups) :
             n \in DOMAIN backups' /\ backups'[n] = backups[n]
       /\ (last'.op = "backup" /\ Exists(live))
             => LET new == last'.backup_path
                    all == BackupFiles(backups) \cup {new}
                IN  /\ MatchesBackupGlob(new)
                    /\ BackupFiles(backups') = Greatest(all, KeepBackups)
                    /\ new \in BackupFiles(backups')
                    /\ backups'[new] = live
                    /\ \A n \in BackupFiles(backups') \ {new} : backups'[n] = backups[n]
       ]_vars

\* Ten backup_* files of which the least is of second 3 or later, next to
\* before_* files: as no second passes without a backup and at most
\* MaxBefore of the seconds 0..2 have a before_* file only, a backup_* file
\* of an earlier second was rotated out.
C8_Witness ==
    /\ last.op = "backup"
    /\ Cardinality(BackupFiles(backups)) = KeepBackups
    /\ \A n \in BackupFiles(backups) : n.ts >= MaxBefore + 1
    /\ Cardinality(BeforeFiles(backups)) = MaxBefore
    /\ \E n \in BeforeFiles(backups) : n.ts = 0

\* C9: after a successful save(name, description, watchedServices) the
\* preset file of name holds the bytes of the live file, the metadata of
\* name is exactly description, watchedServices (["openai"] when unset), the
\* keys of the live mapping and the time of the call, current_preset is
\* name, and the presets of the config are those there were plus name:
\* whatever was under that name before is overwritten.
C9_SaveOverwrites ==
    [][(last'.op = "save" /\ Ok(last'))
          => LET name == last'.name
                 cfg == config'["m1"]
                 meta == cfg.presets[name]
             IN  /\ presetFile'[name] = live
                 /\ \A n \in Names \ {name} : presetFile'[n] = presetFile[n]
                 /\ DOMAIN cfg.presets = DOMAIN config["m1"].presets \cup {name}
                 /\ \A n \in DOMAIN config["m1"].presets \ {name} :
                       cfg.presets[n] = config["m1"].presets[n]
                 /\ meta.description = last'.description
                 /\ meta.watched_services =
                       IF last'.watched.null THEN <<"openai">> ELSE last'.watched.list
                 /\ meta.services = KeyList(live.dict)
                 /\ SeqSet(meta.services) = Keys(live.dict)
                 /\ meta.created_at = IsoFormat(now)
                 /\ meta.last_used = IsoFormat(now)
                 /\ cfg.current_preset = name
                 /\ configFile' = cfg]_vars

\* A save over a preset that was there: an earlier switch to it left a
\* backup, and the file saved now differs from the one the switch read.
C9_Witness ==
    /\ last.op = "save" /\ Ok(last) /\ last.watched.null
    /\ ops = 3
    /\ \E bp \in DOMAIN backups :
          /\ bp.preset = last.name
          /\ backups[bp] # presetFile[last.name]
    /\ config["m1"].presets[last.name].watched_services = <<"openai">>
    /\ DOMAIN config["m1"].presets = {last.name}

\* C10 as claimed: save fails with the NotFound condition whenever the live
\* file does not exist or does not parse as a JSON object, and succeeds
\* otherwise.
C10_SaveFailsNotFound ==
    [][last'.op = "save"
          => last'.status = IF Exists(live) /\ live.kind = "obj"
                            THEN "ok" ELSE "FileNotFoundError"]_vars

\* C10, amended: save fails whenever the live file does not exist or does
\* not parse as a JSON object and succeeds otherwise; the failure is
\* FileNotFoundError only for a missing file, a JSON decode error for
\* malformed JSON and an AttributeError for JSON that is not an object.
C10_SaveOutcome ==
    [][last'.op = "save"
          => /\ Ok(last') <=> (Exists(live) /\ live.kind = "obj")
             /\ last'.status = "FileNotFoundError" <=> ~Exists(live)
             /\ last'.status = "JSONDecodeError" <=> live.kind = "malformed"
             /\ last'.status = "AttributeError" <=> live.kind = "nonobj"
             /\ Ok(last') => config'["m1"].current_preset = last'.name
             /\ ~Ok(last') => config' = config /\ configFile' = configFile]_vars

C10_Witness ==
    /\ last.op = "save"
    /\ last.status = "JSONDecodeError"
    /\ live = Malformed

\* C11 as claimed: after save(name), get(name).services is the sorted list
\* of the keys of the live mapping.
C11_ServicesSorted ==
    [][(last'.op = "get" /\ last'.found)
          => last'.services = SortedServices(Keys(presetFile[last'.name].dict))]_vars

\* C11, amended: after save(name), get(name).services lists the keys of the
\* live mapping that was saved, each once, in the order they have in the
\* file (the services save recorded in the metadata); sorting it gives
\* sorted(keys), but it need not be sorted itself.
C11_ServicesInFileOrder ==
    [][(last'.op = "get" /\ last'.found)
          => LET name == last'.name
                 saved == presetFile[name].dict
             IN  /\ last'.services = KeyList(saved)
                 /\ SeqSet(last'.services) = Keys(saved)
                 /\ Len(last'.services) = Cardinality(Keys(saved))
                 /\ SortedServices(SeqSet(last'.services)) = SortedServices(Keys(saved))
                 /\ name \in DOMAIN config["m1"].presets
                 /\ last'.services = config["m1"].presets[name].services
                 /\ last'.metadata = config["m1"].presets[name]]_vars

\* get after a save of a live file whose keys are not in sorted order
C11_Witness ==
    /\ last.op = "get" /\ last.found
    /\ last.services = <<"openai", "anthropic">>
    /\ last.services # SortedServices(SeqSet(last.services))
    /\ last.metadata.services = last.services

\* C12: delete(name) fails with NotFound when no preset file of name exists
\* (and changes nothing); otherwise it removes the file and the metadata
\* entry of name, current_preset becomes none if it was name and stays as
\* it was if not, and every other preset's file and metadata are unchanged.
C12_Delete ==
    [][last'.op = "delete"
          => LET name == last'.name
                 old == config["m1"]
                 cfg == config'["m1"]
             IN  IF ~Exists(presetFile[name])
                 THEN last'.status = "FileNotFoundError" /\ UNCHANGED Store
                 ELSE /\ Ok(last')
                      /\ ~Exists(presetFile'[name])
                      /\ \A n \in Names \ {name} : presetFile'[n] = presetFile[n]
                      /\ DOMAIN cfg.presets = DOMAIN old.presets \ {name}
                      /\ \A n \in DOMAIN cfg.presets : cfg.presets[n] = old.presets[n]
                      /\ (cfg.current_preset = NoPreset)
                            <=> (old.current_preset \in {name, NoPreset})
                      /\ old.current_preset # name
                            => cfg.current_preset = old.current_preset
                      /\ configFile' = cfg
                      /\ UNCHANGED <<live, backups>>]_vars

\* A delete of a preset that was not the current one: the current one and
\* its file and metadata are still there.
C12_Witness ==
    /\ last.op = "delete" /\ Ok(last)
    /\ config["m1"].current_preset \in Names \ {last.name}
    /\ Exists(presetFile[config["m1"].current_preset])
    /\ DOMAIN config["m1"].presets = {config["m1"].current_preset}

\* A delete of the current preset
C12_WitnessCurrent ==
    /\ last.op = "delete" /\ Ok(last)
    /\ config["m1"].current_preset = NoPreset
    /\ DOMAIN config["m1"].presets # {}

\* C13 as claimed: every successful switch to name sets current_preset to
\* name and updates the last_used of name's metadata, also for a preset
\* file that has no metadata entry in the config.
C13_SwitchUpdatesLastUsed ==
    [][(IsSwitch(last') /\ Ok(last'))
          => LET cfg == config'[last'.mgr]
             IN  /\ cfg.current_preset = last'.name
                 /\ last'.name \in DOMAIN cfg.presets
                 /\ cfg.presets[last'.name].last_used = IsoFormat(now)]_vars

\* C13, amended: every successful switch to name sets current_preset to
\* name and persists the config; it sets last_used of name's metadata to
\* the time of the switch, leaving the rest of the metadata, when the config
\* has an entry for name, and creates no entry (so records no last_used)
\* when it has none.
C13_SwitchMetadata ==
    [][(IsSwitch(last') /\ Ok(last'))
          => LET name == last'.name
                 old == config[last'.mgr]
                 cfg == config'[last'.mgr]
             IN  /\ cfg.current_preset = name
                 /\ DOMAIN cfg.presets = DOMAIN old.presets
                 /\ \A n \in DOMAIN old.presets \ {name} : cfg.presets[n] = old.presets[n]
                 /\ name \in DOMAIN old.presets
                       => cfg.presets[name] =
                             [old.presets[name] EXCEPT !.last_used = IsoFormat(now)]
                 /\ configFile' = cfg]_vars

\* A successful switch by a manager whose config has no entry for the
\* preset (the other manager saved it).
C13_Witness ==
    /\ IsSwitch(last) /\ Ok(last)
    /\ last.name \notin DOMAIN config[last.mgr].presets
    /\ config[last.mgr].current_preset = last.name
    /\ configFile = config[last.mgr]

\* A switch that moved last_used past created_at
C13_WitnessUpdated ==
    /\ IsSwitch(last) /\ Ok(last)
    /\ last.name \in DOMAIN config[last.mgr].presets
    /\ config[last.mgr].presets[last.name].last_used
          > config[last.mgr].presets[last.name].created_at

\* C14: detectCurrent() returns none when the live file is absent, does not
\* load as JSON, or is equal to no preset; otherwise it returns the name of
\* a preset file whose loaded value equals the live one, key order set
\* aside; it never raises and changes nothing.
SameValue(f, g) ==
    /\ f.kind \in {"obj", "nonobj"}
    /\ f.kind = g.kind
    /\ Keys(f.dict) = Keys(g.dict)
    /\ \A k \in Keys(f.dict) : Get(f.dict, k) = Get(g.dict, k)
C14_DetectCurrent ==
    [][last'.op = "detect"
          => LET r == last'.name
                 equal == {n \in Names : SameValue(live, presetFile[n])}
             IN  /\ Ok(last')
                 /\ UNCHANGED Store
                 /\ r = NoPreset <=> equal = {}
                 /\ r # NoPreset => r \in equal
                 /\ ~Exists(live) \/ live = Malformed => r = NoPreset]_vars

\* A preset detected although its file is not the bytes of the live file:
\* the keys are in another order.
C14_Witness ==
    /\ last.op = "detect"
    /\ last.name \in Names
    /\ Len(live.dict) = 2
    /\ presetFile[last.name].dict # live.dict
    /\ DictEq(presetFile[last.name].dict, live.dict)

\* C15: for every preset of the config, watched_services is a subset of the
\* preset's services.
C15_WatchedSubset ==
    \A n \in DOMAIN config["m1"].presets :
        SeqSet(config["m1"].presets[n].watched_services)
            \subseteq SeqSet(config["m1"].presets[n].services)

\* C20: a full switch and a selective switch with selectedServices = null
\* are the same operation: from the same state, for the same preset and
\* autoBackup, they fail alike or return the same diff and backup path and
\* leave the same live mapping, the same backup files and the same config.
C20_FullIsSelectiveNull ==
    [][/\ last'.op = "switch"
          => LET n == last'.name
                 b == last'.auto_backup
             IN  /\ last'.status = SelectiveStatus(n)
                 /\ Ok(last')
                       => /\ DictEq(live'.dict, SelectiveLive(n, Null).dict)
                          /\ live'.kind = SelectiveLive(n, Null).kind
                          /\ backups' = SelectiveBackups(n, b)
                          /\ last'.backup_path = SelectiveBackupPath(n, b)
                          /\ config'[last'.mgr] = SelectiveConfig(config[last'.mgr], n, now)
                          /\ configFile' = SelectiveConfig(config[last'.mgr], n, now)
                          /\ last'.diff = ComputeAuthDiff(LiveMapping, SelectiveLive(n, Null).dict)
       /\ (last'.op = "selective" /\ (last'.selected.null \/ ~Ok(last')))
          => LET n == last'.name
                 b == last'.auto_backup
             IN  /\ last'.status = SwitchStatus(n)
                 /\ Ok(last')
                       => /\ DictEq(live'.dict, SwitchLive(n).dict)
                          /\ live'.kind = SwitchLive(n).kind
                          /\ backups' = SwitchBackups(n, b)
                          /\ last'.backup_path = SwitchBackupPath(n, b)
                          /\ config'[last'.mgr] = SwitchConfig(config[last'.mgr], n, now)
                          /\ configFile' = SwitchConfig(config[last'.mgr], n, now)
                          /\ last'.diff = ComputeAuthDiff(LiveMapping, SwitchLive(n).dict)
       ]_vars

\* A selective switch with null that changed the live mapping and made a
\* backup: the live file has the preset's mapping (written anew, so not the
\* preset's bytes).
C20_Witness ==
    /\ last.op = "selective" /\ Ok(last) /\ last.selected.null
    /\ last.backup_path \in DOMAIN backups
    /\ last.diff.removed # <<>> /\ last.diff.modified # <<>>
    /\ DictEq(live.dict, presetFile[last.name].dict)
    /\ live # presetFile[last.name]

\* The access tokens collectAll meets: the live file's and the presets'
LiveToken ==
    IF live.kind = "obj" /\ "openai" \in Keys(live.dict)
    THEN {Get(live.dict, "openai")} ELSE {}
Carries(n, t) ==
    /\ presetFile[n].kind = "obj"
    /\ "openai" \in Keys(presetFile[n].dict)
    /\ Get(presetFile[n].dict, "openai") = t
PresetTokens == {t \in Creds : \E n \in Names : Carries(n, t)}
OtherTokens(results, t) == SelectSeq(results, LAMBDA r : r.token # t)

\* C16: collectAll() never raises and returns a result list; each token
\* whose fetch fails (HTTP error, transport error, body that is not JSON,
\* JSON of an unexpected shape) is reported as a result with a non-null
\* error, and the results of the other tokens are what they would be had
\* that token succeeded.
C16_CollectAllNeverRaises ==
    quota.call.op = "collect_all"
       => /\ quota.call.raised = NoRaise
          /\ \A t \in LiveToken \cup PresetTokens :
                quota.provider[t] # "ok"
                   => /\ \E i \in DOMAIN quota.call.results :
                            /\ quota.call.results[i].token = t
                            /\ quota.call.results[i].error # NoError
                      /\ OtherTokens(quota.call.results, t)
                            = OtherTokens(CollectAll([quota.provider EXCEPT ![t] = "ok"],
                                                     quota.antigravity).results, t)

\* The distinct tokens of the presets in the order they are first seen,
\* scanning the preset names in lexicographic order
RECURSIVE FirstSeen(_)
FirstSeen(names) ==
    IF names = <<>> THEN <<>>
    ELSE LET n == names[1]
             rest == FirstSeen(Tail(names))
             t == Get(presetFile[n].dict, "openai")
         IN  IF ~\E u \in Creds : Carries(n, u) THEN rest
             ELSE <<t>> \o SelectSeq(rest, LAMBDA u : u # t)

\* C17: collectOpenAI() makes exactly one fetch and emits exactly one result
\* per distinct access token of the presets; a result's presets are the
\* sorted names of all presets carrying the token; the results are in the
\* order in which the tokens are first seen, presets scanned by name.
C17_OneResultPerToken ==
    quota.call.op = "collect_openai"
       => /\ quota.call.fetched = FirstSeen(NameOrder)
          /\ Len(quota.call.results) = Cardinality(PresetTokens)
          /\ \A i \in DOMAIN quota.call.results :
                /\ quota.call.results[i].token = FirstSeen(NameOrder)[i]
                /\ quota.call.results[i].presets
                      = SortedNames({n \in Names : Carries(n, quota.call.results[i].token)})

\* C17 holds of every collectOpenAI() call in which no fetch raised.
C17_WhenNoFetchRaises ==
    (quota.call.op = "collect_openai" /\ quota.call.raised = NoRaise)
       => C17_OneResultPerToken

\* Two presets with one token, fetched once
C17_SharedToken ==
    /\ quota.call.op = "collect_openai" /\ quota.call.raised = NoRaise
    /\ Len(quota.call.results) = 1
    /\ quota.call.results[1].presets = <<"home", "work">>

\* The integer nearest to x tenths, the even one of two equally near
Dist(n, x) == IF 10 * n >= x THEN 10 * n - x ELSE x - 10 * n
Nearest(x) ==
    LET lo == x \div 10
    IN  CHOOSE n \in {lo, lo + 1} :
           \A m \in {lo, lo + 1} :
              \/ Dist(n, x) < Dist(m, x)
              \/ Dist(n, x) = Dist(m, x) /\ (n = m \/ n % 2 = 0)
Clamp(n, lo, hi) == IF n < lo THEN lo ELSE IF n > hi THEN hi ELSE n
PercentExamples ==
    {<<150, 0>>, <<0 - 10, 100>>, <<0 - 50, 100>>, <<100, 0>>, <<0, 100>>, <<50, 50>>, <<37, 63>>}

\* C18: for every numeric used_percent u, remaining_percent is the integer
\* clamp(round(100 - u), 0, 100), round being to the nearest integer (ties
\* to the even one, as Python rounds); it lies in 0..100, and 150 gives 0,
\* -10 and -50 give 100, 100 gives 0, 0 gives 100, 50 gives 50, 37 gives 63.
C18_RemainingPercent ==
    quota.call.op = "remaining_percent"
       => /\ quota.call.result = Clamp(Nearest(1000 - quota.call.used), 0, 100)
          /\ quota.call.result \in 0 .. 100
          /\ \A e \in PercentExamples :
                quota.call.used = 10 * e[1] => quota.call.result = e[2]

\* A used_percent of 37.5: 62.5 remain, which rounds to 62, not clamped
C18_Witness ==
    /\ quota.call.op = "remaining_percent"
    /\ quota.call.used = 375
    /\ quota.call.result = 62

\* A used_percent of 150, clamped to 0
C18_WitnessClamped ==
    /\ quota.call.op = "remaining_percent"
    /\ quota.call.used = 1500
    /\ quota.call.result = 0

\* The whole seconds from the clock to the reset time of the last call
SecondsAhead == (quota.call.reset.t - now) \div TicksPerSecond

\* C19 as claimed: time_until_reset gives "-" for no reset time,
\* "Resetting..." for one in the past, and for one d seconds ahead
\* "<h>h <m>m" if h = d div 3600 >= 1 and "<m>m" otherwise, with
\* m = (d mod 3600) div 60.
C19_TimeUntilReset ==
    quota.call.op = "time_until_reset"
       => LET reset == quota.call.reset
              d == SecondsAhead
          IN  quota.call.result =
                 IF reset.kind = "none" THEN Text("-", 0, 0)
                 ELSE IF reset.kind = "not_iso" THEN quota.call.result
                 ELSE IF reset.t < now THEN Text("Resetting...", 0, 0)
                 ELSE IF d \div 3600 >= 1
                 THEN Text("<h>h <m>m", d \div 3600, (d % 3600) \div 60)
                 ELSE Text("<m>m", 0, (d % 3600) \div 60)

\* C19, amended: as claimed, except that a reset time at least one second
\* and less than one minute ahead gives "1m", not "0m" ("0m" is given only
\* for less than one second ahead).
C19_TimeUntilResetFloor ==
    quota.call.op = "time_until_reset"
       => LET reset == quota.call.reset
              d == SecondsAhead
          IN  quota.call.result =
                 IF reset.kind = "none" THEN Text("-", 0, 0)
                 ELSE IF reset.kind = "not_iso" THEN quota.call.result
                 ELSE IF reset.t < now THEN Text("Resetting...", 0, 0)
                 ELSE IF d \div 3600 >= 1
                 THEN Text("<h>h <m>m", d \div 3600, (d % 3600) \div 60)
                 ELSE IF d >= 1 /\ d < 60 THEN Text("<m>m", 0, 1)
                 ELSE Text("<m>m", 0, (d % 3600) \div 60)

\* A reset time 30 seconds ahead, shown as "1m"
C19_Witness ==
    /\ quota.call.op = "time_until_reset"
    /\ quota.call.reset.kind = "iso"
    /\ SecondsAhead = 30
    /\ quota.call.result = Text("<m>m", 0, 1)

\* A reset time 90 minutes ahead, shown as "1h 30m"
C19_WitnessHours ==
    /\ quota.call.op = "time_until_reset"
    /\ quota.call.reset.kind = "iso"
    /\ SecondsAhead = 5400
    /\ quota.call.result = Text("<h>h <m>m", 1, 30)

\* The requests of the last Google fetch, by endpoint
Listings == SelectSeq(quota.call.requests, LAMBDA r : r.to = "models")
Refreshes == SelectSeq(quota.call.requests, LAMBDA r : r.to = "refresh")
OneErrorResult ==
    /\ quota.call.raised = NoRaise
    /\ Len(quota.call.results) = 1
    /\ quota.call.results[1].error # NoError

\* C21: one Google fetch issues at most two model-listing requests and at
\* most one refresh request; a second listing request is made only after
\* the first, carrying the given access token, got a 401 and the refresh
\* succeeded; a 401 for a just-refreshed token, or a failing retry, ends the
\* fetch with an error result and no further request.
C21_AtMostOneRetry ==
    quota.call.op = "fetch_google"
       => LET reqs == quota.call.requests
              env == quota.call.env
          IN  /\ Len(Listings) <= 2
              /\ Len(Refreshes) <= 1
              /\ Len(Listings) = 2
                    => /\ quota.call.access # None
                       /\ reqs = <<Request("models", quota.call.access),
                                   Request("refresh", quota.call.refresh),
                                   Request("models", "fresh")>>
                       /\ env.listing[1] = "401"
                       /\ env.refresh[1] = "ok"
              /\ \A i \in DOMAIN Listings :
                    (Listings[i].token = "fresh" /\ env.listing[i] = "401")
                       => /\ OneErrorResult
                          /\ reqs[Len(reqs)] = Listings[i]
                          /\ i = Len(Listings)
              /\ (Len(Listings) = 2 /\ env.listing[2] \in ListingRaises)
                    => OneErrorResult /\ reqs[Len(reqs)] = Listings[2]

\* A retry with the refreshed token that got a 401 again
C21_Witness ==
    /\ quota.call.op = "fetch_google"
    /\ Len(Listings) = 2 /\ Len(Refreshes) = 1
    /\ quota.call.env.listing = <<"401", "401">>
    /\ quota.call.results = <<GoogleError("Retry failed")>>

\* A 401 for a token refreshed at the start: no retry
C21_WitnessFresh ==
    /\ quota.call.op = "fetch_google"
    /\ quota.call.access = None
    /\ quota.call.requests = <<Request("refresh", "refresh"), Request("models", "fresh")>>
    /\ quota.call.env.listing[1] = "401"
    /\ OneErrorResult

\* C22: a Google fetch with no access token returns exactly one result with
\* error "No access token (Refresh failed)" and makes no model-listing
\* request if the refresh token is absent or the refresh fails; if the
\* refresh succeeds, the model-listing request carries the refreshed token.
C22_NoAccessToken ==
    (quota.call.op = "fetch_google" /\ quota.call.access = None)
       => IF quota.call.refresh = None \/ quota.call.env.refresh[1] # "ok"
          THEN /\ quota.call.raised = NoRaise
               /\ quota.call.results = <<GoogleError("No access token (Refresh failed)")>>
               /\ Listings = <<>>
               /\ Len(Refreshes) = IF quota.call.refresh = None THEN 0 ELSE 1
          ELSE /\ quota.call.requests[1] = Request("refresh", quota.call.refresh)
               /\ Len(Listings) >= 1
               /\ \A i \in DOMAIN Listings : Listings[i].token = "fresh"

\* A failed refresh: one request, one error result
C22_Witness ==
    /\ quota.call.op = "fetch_google" /\ quota.call.access = None
    /\ quota.call.requests = <<Request("refresh", "refresh")>>
    /\ quota.call.env.refresh[1] = "fails"
    /\ quota.call.results = <<GoogleError("No access token (Refresh failed)")>>

\* A successful refresh, and the listing answered for the refreshed token
C22_WitnessRefreshed ==
    /\ quota.call.op = "fetch_google" /\ quota.call.access = None
    /\ quota.call.requests = <<Request("refresh", "refresh"), Request("models", "fresh")>>
    /\ quota.call.results[1].error = NoError

\* C23: a per-token OpenAI fetch whose expires is a number less than the
\* current time in milliseconds gives no window, error "Token expired" and
\* issues no request; if expires is absent, not a number or not in the past,
\* exactly one usage request is issued.
C23_TokenExpired ==
    quota.call.op = "fetch_openai"
       => IF quota.call.expires.kind = "number" /\ quota.call.expires.v < quota.call.now_ms
          THEN /\ quota.call.raised = NoRaise
               /\ quota.call.result.daily = FALSE
               /\ quota.call.result.error = "Token expired"
               /\ quota.call.requests = 0
          ELSE quota.call.requests = 1

\* A token that expired one millisecond ago
C23_Witness ==
    /\ quota.call.op = "fetch_openai"
    /\ quota.call.now_ms > 0
    /\ quota.call.expires = NumExpires(quota.call.now_ms - 1)
    /\ quota.call.requests = 0
    /\ quota.call.result.error = "Token expired"

\* A token expiring at this very millisecond: fetched
C23_WitnessAtExpiry ==
    /\ quota.call.op = "fetch_openai"
    /\ quota.call.now_ms > 0
    /\ quota.call.expires = NumExpires(quota.call.now_ms)
    /\ quota.call.requests = 1

\* C24: every model entry with quota info gives a result whose
\* percent_remaining is round(remainingFraction * 100), the nearest integer
\* (0.999 and 0.996 give 100).
C24_PercentRounded ==
    quota.call.op = "fetch_google"
       => \A i \in DOMAIN quota.call.results :
             quota.call.results[i].error = NoError
                => quota.call.results[i].percent_remaining
                      = Nearest(quota.call.results[i].fraction)

\* C25: in every state reached by save, the two switches and delete from
\* an empty store, current_preset of the manager is none or the name of a
\* preset whose file exists.
C25_CurrentPresetExists ==
    \/ config["m1"].current_preset = NoPreset
    \/ /\ config["m1"].current_preset \in Names
       /\ Exists(presetFile[config["m1"].current_preset])

\* The current preset was deleted while another preset remains: the
\* pointer is none, not the name of the file that is gone.
C25_Witness ==
    /\ last.op = "delete" /\ Ok(last)
    /\ ~Exists(presetFile[last.name])
    /\ config["m1"].current_preset = NoPreset
    /\ \E n \in Names : Exists(presetFile[n]) /\ n \in DOMAIN config["m1"].presets

\* C26: in every state reached by save, switch and delete from an empty
\* store, the preset files are exactly the presets of the config's
\* metadata, and config.json equals the in-memory config after every
\* successful save, switch or delete.
C26_FilesMatchMetadata ==
    /\ {n \in Names : Exists(presetFile[n])} = DOMAIN config["m1"].presets
    /\ (last.op \in {"save", "switch", "selective", "delete"} /\ Ok(last))
          => configFile = config["m1"]

\* C29: the diff a selective switch returns is diff(live before, preset)
\* whatever the selected services; it can list services the switch did not
\* change in the live file.
C29_DiffIgnoresSelection ==
    [][(last'.op = "selective" /\ Ok(last'))
          => /\ last'.diff = ComputeAuthDiff(LiveMapping, presetFile[last'.name].dict)
             /\ \A s \in SelectedInputs : SelectiveDiff(last'.name, s) = last'.diff]_vars

\* A selective switch with [] that reported a service as added and one as
\* modified or removed, and left the live mapping without the one and with
\* the other as it was: the diff is not that of before and after.
C29_Witness ==
    /\ last.op = "selective" /\ Ok(last)
    /\ last.selected = Some(<<>>)
    /\ \E s \in SeqSet(last.diff.added) : s \notin Keys(live.dict)
    /\ \E s \in SeqSet(last.diff.modified) \cup SeqSet(last.diff.removed) :
          /\ s \in Keys(live.dict)
          /\ s \in Keys(presetFile[last.name].dict)
                => Get(live.dict, s) # Get(presetFile[last.name].dict, s)

\* C30: two managers on one config directory, both constructed before
\* either wrote: when one has saved preset a and the other then saves
\* preset b, config.json has the metadata of b and not of a, while both
\* preset files exist.
C30_LostUpdate ==
    [][(/\ last.op = "save" /\ Ok(last)
        /\ last'.op = "save" /\ Ok(last')
        /\ last'.mgr # last.mgr
        /\ last'.name # last.name
        /\ DOMAIN configFile.presets = {last.name}
        /\ config[last'.mgr] = DefaultConfig)
          => /\ DOMAIN configFile'.presets = {last'.name}
             /\ configFile' = config'[last'.mgr]
             /\ Exists(presetFile'[last.name])
             /\ Exists(presetFile'[last'.name])
             /\ last.name \in DOMAIN config'[last.mgr].presets]_vars

\* After m1 saved home and m2 saved work
C30_Witness ==
    /\ last.op = "save" /\ Ok(last) /\ last.mgr = "m2" /\ last.name = "work"
    /\ DOMAIN config["m1"].presets = {"home"}
    /\ DOMAIN configFile.presets = {"work"}
    /\ Exists(presetFile["home"]) /\ Exists(presetFile["work"])

\* C27: save, delete, list, get, detectCurrent and the quota collectors
\* never create, change or remove the live file or a backup file; of the
\* manager's operations only a switch writes the live file; a switch never
\* changes a preset file; save(name) and delete(name) never change the
\* file of a preset of another name.
C27_Frame ==
    [][/\ last'.op \in {"save", "delete", "list", "get", "detect",
                        "collect_openai", "collect_active", "collect_all"}
             => UNCHANGED <<live, backups>>
       /\ live' # live => IsSwitch(last') \/ last'.op = "client"
       /\ IsSwitch(last') => UNCHANGED presetFile
       /\ last'.op \in {"save", "delete"}
             => \A n \in Names \ {last'.name} : presetFile'[n] = presetFile[n]]_vars

\* A save beside a preset of another name and other content
C27_Witness ==
    /\ last.op = "save" /\ Ok(last)
    /\ \E n \in Names \ {last.name} :
          /\ Exists(presetFile[n])
          /\ ~DictEq(presetFile[n].dict, presetFile[last.name].dict)
    /\ live = presetFile[last.name]

\* A collector call that fetched for the live file's token and a preset's
C27_WitnessCollect ==
    /\ last.op = "collect_all"
    /\ Len(quota.call.fetched) >= 2
    /\ Exists(live)

\* A switch that changed the live file
C27_WitnessSwitch ==
    /\ IsSwitch(last) /\ Ok(last)
    /\ last.diff.unchanged = <<>>
    /\ last.diff.modified # <<>>
    /\ live.dict = presetFile[last.name].dict

\* The content of a file is kept by a backup file
Holds(dir, file) ==
    \E b \in DOMAIN dir : dir[b] = file \/ SameValue(dir[b], file)

\* C28: after any sequence of switches with autoBackup, for every switch
\* that found a live file some backup file still holds the live content as
\* it was just before that switch, also when two switches to one preset
\* fall in one second.  The backup files here are all made by switches, so
\* this is: a switch loses neither the content of the live file it found
\* nor the content of any backup file.
C28_BackupsKeepPreSwitchContent ==
    [][(IsSwitch(last') /\ Ok(last') /\ last'.auto_backup)
          => /\ Exists(live) => Holds(backups', live)
             /\ \A b \in DOMAIN backups : Holds(backups', backups[b])]_vars
====
